---------------------------- MODULE Spec2Model ----------------------------
(***************************************************************************)
(* A model of the chunk sources (lib/tdf3/src/utils/chunkers.ts), of the   *)
(* stream materialisation done before random access (fromDataSource,       *)
(* makeChunkable, streamToBuffer), of the concurrent multipart Upload, of  *)
(* the TDF3 Client (tdf3/src/client/index.ts) and of the                   *)
(* DecoratedReadableStream of arkavo-org/client-web.                       *)
(*                                                                         *)
(* The module holds six state machines over one set of variables; each     *)
(* has its own specifications (SpecChunk, SpecStream, SpecUpload,          *)
(* SpecClient, SpecDecorated, SpecOptions) and leaves the variables of the *)
(* others at their initial values.                                         *)
(***************************************************************************)
EXTENDS Integers, Sequences, FiniteSets, TLC

VARIABLES
  \* ---- chunk sources ----
  content,      \* the bytes S behind every chunker variant
  byteStart,    \* Chunker argument byteStart?: {} when absent, {n} when given
  byteEnd,      \* Chunker argument byteEnd?:   {} when absent, {n} when given
  bufRes,       \* outcome of fromBuffer(S)(byteStart, byteEnd)
  fileRes,      \* outcome of fromNodeFile(path of S)(byteStart, byteEnd)
  blobRes,      \* outcome of fromBrowserFile(blob of S)(byteStart, byteEnd)
  urlPc,        \* fromUrl call: "idle", "inflight", "resolved", "rejected"
  urlRes,       \* outcome of fromUrl(url of S)(byteStart, byteEnd)
  requests,     \* history: the Range header of every GET sent, in order
  attemptLog,   \* history: the response that ended every GET, in order
  retryCount,   \* axios-retry's per-request retryCount
  \* ---- stream materialisation ----
  srcKind,      \* entry point used: "fromDataSource" or "makeChunkable"
  streamAll,    \* history: the chunks the one-shot stream was created with
  streamChunks, \* the chunks the stream will still deliver
  streamPulls,  \* history: number of reads issued to the stream
  streamEnds,   \* history: number of times the stream reported its end
  accumulator,  \* bytes collected so far by streamToBuffer
  sPc,          \* "reading", "buffered" (stream ended) or "ready" (chunker returned)
  sNumReads,    \* history: number of chunker reads made
  sLastRead,    \* history: arguments and result of the latest chunker read
  \* ---- Upload ----
  queueSize,          \* this.queueSize
  leavePartsOnError,  \* this.leavePartsOnError
  hasTags,            \* this.tags.length > 0
  bodyParts,          \* number of parts getChunk cuts params.Body into
  feederNext,         \* partNumber the data feeder yields next
  feederClosed,       \* the generator has been returned or thrown out of
  wpc,                \* per uploader: where __doConcurrentUpload stands
  wpart,              \* per uploader: partNumber of the dataPart it holds
  uploadedParts,      \* this.uploadedParts, as the sequence of PartNumber
  bytesUploadedSoFar, \* this.bytesUploadedSoFar
  uploadId,           \* this.uploadId is set
  createState,        \* createMultiPartPromise: "none", "pending", "ok", "failed"
  aborted,            \* abortController.signal.aborted
  onabortSet,         \* abortSignal.onabort is installed
  isMultiPart,        \* this.isMultiPart
  mpPc,               \* where __doMultipartUpload stands
  donePc,             \* how the promise returned by done() stands
  inFlight,           \* history: part requests sent and not yet answered
  sent,               \* history: number of commands sent, per command
  completeParts,      \* history: Parts of the CompleteMultipartUploadCommand
  progress,           \* history: 'loaded' of every progress event, in order
  \* ---- Client ----
  config,        \* the ClientConfig handed to new Client(config)
  client,        \* outcome of the constructor and the fields of the Client
  sessionKeys,   \* this.sessionKeys: the promise and where createSessionKeys stands
  kasPublicKey,  \* this.kasPublicKey: the promise of the KAS public key
  authLog,       \* history: arguments of every updateClientPublicKey call
  effects,       \* history: key generations and KAS key fetches started
  calls,         \* the encrypt and decrypt calls made on the Client
  \* ---- DecoratedReadableStream ----
  source,        \* the UnderlyingSource: chunks it holds, chunks per call
  env,           \* toFile's surroundings: options, isFirefox(), WritableStream
  rs,            \* this.stream: the ReadableStream and its controller
  toFilePc,      \* where toFile and its pump stand
  readLog,       \* history: the chunks the pump was handed by reader.read()
  sink,          \* the chunks the writer has written
  writePending,  \* the chunk of a writer.write not yet settled
  writerClosed,  \* writer.close() has been called
  \* ---- Upload constructor ----
  options,       \* the Options handed to new Upload(options)
  upload         \* outcome of the constructor and the fields it has set

chunkVars == <<content, byteStart, byteEnd, bufRes, fileRes, blobRes, urlPc,
               urlRes, requests, attemptLog, retryCount>>
streamVars == <<srcKind, streamAll, streamChunks, streamPulls, streamEnds,
                accumulator, sPc, sNumReads, sLastRead>>
uploadConfig == <<queueSize, leavePartsOnError, hasTags, bodyParts>>
uploadVars == <<uploadConfig, feederNext, feederClosed, wpc, wpart,
                uploadedParts, bytesUploadedSoFar, uploadId, createState,
                aborted, onabortSet, isMultiPart, mpPc, donePc, inFlight, sent,
                completeParts, progress>>
clientVars == <<config, client, sessionKeys, kasPublicKey, authLog, effects,
                calls>>
decoratedVars == <<source, env, rs, toFilePc, readLog, sink, writePending,
                   writerClosed>>
optionsVars == <<options, upload>>
vars == <<chunkVars, streamVars, uploadVars, clientVars, decoratedVars,
          optionsVars>>

\* Each state machine leaves the variables of the others alone.
ChunkOnly ==
  UNCHANGED <<streamVars, uploadVars, clientVars, decoratedVars, optionsVars>>
StreamOnly ==
  UNCHANGED <<chunkVars, uploadVars, clientVars, decoratedVars, optionsVars>>
UploadOnly ==
  UNCHANGED <<chunkVars, streamVars, clientVars, decoratedVars, optionsVars>>
ClientOnly ==
  UNCHANGED <<chunkVars, streamVars, uploadVars, decoratedVars, optionsVars>>
DecoratedOnly ==
  UNCHANGED <<chunkVars, streamVars, uploadVars, clientVars, optionsVars>>
OptionsOnly ==
  UNCHANGED <<chunkVars, streamVars, uploadVars, clientVars, decoratedVars>>

----------------------------------------------------------------------------
(* Bounds of the model.                                                    *)

\* longest content of a chunk source
MaxLen == 3
\* largest magnitude of a byteStart / byteEnd argument
MaxArg == 4
\* most chunks a one-shot stream delivers
MaxStreamChunks == 2
\* longest chunk a stream delivers
MaxChunkLen == 2
\* most chunker reads issued after a stream was materialised
MaxStreamReads == 2
\* largest queueSize an Upload is built with
MaxQueue == 2
\* most parts the data feeder cuts a Body into
MaxBodyParts == 4
\* most encrypt and decrypt calls made on one Client
MaxCalls == 2
\* most chunks an underlying source holds
MaxSourceChunks == 3
\* most chunks an underlying source enqueues in one call of start or pull
MaxPerCall == 2
\* largest magnitude of an options.queueSize
MaxOptQueue == 2
\* largest distance of an options.partSize from 0 and from MIN_PART_SIZE
MaxPartOffset == 1

Byte == {0, 1}

----------------------------------------------------------------------------
(* Helpers.                                                                *)

Max(a, b) == IF a >= b THEN a ELSE b
Min(a, b) == IF a <= b THEN a ELSE b
Abs(a) == IF a < 0 THEN 0 - a ELSE a

\* An optional argument: absent is {}, present is a singleton.
Undefined == {}
Some(n) == {n}
Val(o) == CHOOSE x \in o : TRUE

\* S[lo:hi] with 0-based lo inclusive and hi exclusive, empty when hi <= lo.
Slice(S, lo, hi) ==
  IF hi <= lo THEN << >>
  ELSE [i \in 1..(hi - lo) |-> S[lo + i]]

SeqsUpTo(n) == UNION {[1..k -> Byte] : k \in 0..n}

Ok(data) == [kind |-> "ok", data |-> data, msg |-> ""]
Err(msg) == [kind |-> "err", data |-> << >>, msg |-> msg]
NoRes == [kind |-> "none", data |-> << >>, msg |-> ""]


----------------------------------------------------------------------------
(* Chunk sources: chunkers.ts.                                             *)

\* axiosRetry(axiosRemoteChunk, { retries: 3, ... })
retries == 3

\* The relative index of TypedArray.prototype.slice and Blob.prototype.slice:
\* an absent bound takes the default, a negative one counts from the end and
\* both are clamped to 0..len.
RelativeIndex(o, len, dflt) ==
  IF o = Undefined THEN dflt
  ELSE IF Val(o) < 0 THEN Max(len + Val(o), 0)
  ELSE Min(Val(o), len)

\* fromBuffer: Promise.resolve(buffer.slice(byteStart, byteEnd))
fromBuffer(S, bs, be) ==
  Ok(Slice(S, RelativeIndex(bs, Len(S), 0), RelativeIndex(be, Len(S), Len(S))))

\* fromBrowserFile: fileRef.slice(byteStart, byteEnd), then the blob's bytes
fromBrowserFile(S, bs, be) ==
  LET relStart == RelativeIndex(bs, Len(S), 0)
      relEnd == RelativeIndex(be, Len(S), Len(S))
      span == Max(relEnd - relStart, 0)
  IN  Ok(Slice(S, relStart, relStart + span))

\* fs.createReadStream(filePath, { start, end }) read to its 'end' event:
\* start and end are validated as integers >= 0 and start <= end (the
\* constructor throws otherwise); end is inclusive and absent means to EOF;
\* reading stops at EOF.
createReadStream(S, start, end) ==
  IF start < 0 THEN Err("ERR_OUT_OF_RANGE")
  ELSE IF end = Undefined THEN Ok(Slice(S, start, Len(S)))
  ELSE IF Val(end) < 0 \/ start > Val(end) THEN Err("ERR_OUT_OF_RANGE")
  ELSE Ok(Slice(S, start, Min(Val(end) + 1, Len(S))))

\* Mutant: the start is not clamped at the beginning of the file.
NegativeStartUnclamped(fileSize, start) == fileSize - Abs(start)

\* The start of the read stream for a negative byteStart.
NegativeStart(fileSize, start) == Max(0, fileSize - Abs(start))

\* fromNodeFile(filePath)(byteStart, byteEnd), fileSize = statSync(..).size
fromNodeFile(S, bs, be) ==
  LET fileSize == Len(S)
      start0 == IF bs = Undefined \/ bs = Some(0) THEN 0 ELSE Val(bs)
      endFalsy == be = Undefined \/ be = Some(0)
      start == IF start0 < 0 THEN NegativeStart(fileSize, start0) ELSE start0
      end == IF endFalsy THEN be
             ELSE IF Val(be) < 0 THEN Some(fileSize + Val(be) - 1)
             ELSE Some(Val(be) - 1)
  IN  IF start0 = 0 /\ endFalsy
      THEN Ok(S)                               \* readFile(filePath)
      ELSE createReadStream(S, start, end)

\* The text of a range, `${byteStart}` or `${byteStart}-${byteEnd - 1}`, kept
\* as its parts: the number printed first, whether "-<last>" follows, and last.
RangeText(first, hasLast, last) ==
  [first |-> first, hasLast |-> hasLast, last |-> last]

\* Mutant: a negative byteEnd is printed into the range like any other.
fromUrlNoEndCheck(bs, be) ==
  IF bs = Undefined THEN [throws |-> FALSE, range |-> Undefined]
  ELSE IF be # Undefined /\ Val(be) # 0
    THEN [throws |-> FALSE,
          range |-> Some(RangeText(Val(bs), TRUE, Val(be) - 1))]
  ELSE [throws |-> FALSE, range |-> Some(RangeText(Val(bs), FALSE, 0))]

\* fromUrl(location)(byteStart, byteEnd) up to its call of getRemoteChunk:
\* either it throws, or it passes a range (absent when byteStart is absent).
fromUrl(bs, be) ==
  IF bs = Undefined THEN [throws |-> FALSE, range |-> Undefined]
  ELSE IF be # Undefined /\ Val(be) < 0
    THEN [throws |-> TRUE, range |-> Undefined]
  ELSE IF be # Undefined /\ Val(be) # 0
    THEN [throws |-> FALSE,
          range |-> Some(RangeText(Val(bs), TRUE, Val(be) - 1))]
  ELSE [throws |-> FALSE, range |-> Some(RangeText(Val(bs), FALSE, 0))]

\* Mutant: a Range header is attached to every GET.
RangeHeaderAlways(range) ==
  IF range # Undefined THEN range ELSE Some(RangeText(0, FALSE, 0))

\* getRemoteChunk: the Range header of the GET, `bytes=${range}` when a range
\* is passed (a printed number is never the empty string) and none otherwise.
RangeHeader(range) == IF range # Undefined THEN range ELSE Undefined

HttpResponse(status, data) == [status |-> status, data |-> data]

\* What a server that honours Range may answer to a GET of S (RFC 9110
\* section 14): no header, the whole content; "bytes=a-b" with a <= b, the
\* bytes a..min(b, |S|-1), or 416 when a >= |S|; "bytes=-k", the last k bytes;
\* any other text ("bytes=a", "bytes=a-b" with b < a, "bytes=-k-b") is an
\* invalid range, which a server may ignore (200, whole content) or reject.
ServerAnswers(S, header) ==
  IF header = Undefined THEN {HttpResponse(200, Some(S))}
  ELSE LET r == Val(header) IN
    IF r.first >= 0 /\ r.hasLast /\ r.last >= r.first
      THEN IF r.first >= Len(S)
             THEN {HttpResponse(416, Undefined)}
             ELSE {HttpResponse(206,
                     Some(Slice(S, r.first, Min(r.last, Len(S) - 1) + 1)))}
    ELSE IF r.first < 0 /\ ~r.hasLast
      THEN {HttpResponse(206,
              Some(Slice(S, Max(0, Len(S) + r.first), Len(S))))}
    ELSE {HttpResponse(200, Some(S)), HttpResponse(400, Undefined)}

\* A request that gets no response at all (connection error, timeout).
NetworkError == HttpResponse(0, Undefined)

\* axios resolves a response whose status is 2xx and rejects every other.
Fulfilled(res) == res.status >= 200 /\ res.status < 300

\* Mutant: one retry fewer than configured.
ShouldRetryOneLess(count) == count < retries - 1

\* axios-retry: a rejected request is sent again while retryCount < retries
\* and retryCondition holds (here: always).
ShouldRetry(count) == count < retries

\* getRemoteChunk on a fulfilled response: res.data, or an Error without it.
RemoteChunkResult(res) ==
  IF res.data = Undefined THEN Err("Unexpected response type")
  ELSE Ok(Val(res.data))

Arg == {Undefined} \cup {Some(n) : n \in (0 - MaxArg)..MaxArg}

ChunkIdle ==
  /\ bufRes = NoRes /\ fileRes = NoRes /\ blobRes = NoRes
  /\ urlPc = "idle" /\ urlRes = NoRes
  /\ requests = << >> /\ attemptLog = << >> /\ retryCount = 0

ChunkInit ==
  /\ content \in SeqsUpTo(MaxLen)
  /\ byteStart \in Arg
  /\ byteEnd \in Arg
  /\ ChunkIdle

ChunkParked ==
  /\ content = << >> /\ byteStart = Undefined /\ byteEnd = Undefined
  /\ ChunkIdle

ReadBuffer ==
  /\ ChunkOnly
  /\ bufRes = NoRes
  /\ bufRes' = fromBuffer(content, byteStart, byteEnd)
  /\ UNCHANGED <<content, byteStart, byteEnd, fileRes, blobRes, urlPc, urlRes,
                 requests, attemptLog, retryCount>>

ReadNodeFile ==
  /\ ChunkOnly
  /\ fileRes = NoRes
  /\ fileRes' = fromNodeFile(content, byteStart, byteEnd)
  /\ UNCHANGED <<content, byteStart, byteEnd, bufRes, blobRes, urlPc, urlRes,
                 requests, attemptLog, retryCount>>

ReadBrowserFile ==
  /\ ChunkOnly
  /\ blobRes = NoRes
  /\ blobRes' = fromBrowserFile(content, byteStart, byteEnd)
  /\ UNCHANGED <<content, byteStart, byteEnd, bufRes, fileRes, urlPc, urlRes,
                 requests, attemptLog, retryCount>>

\* fromUrl's chunker is called: it throws, or getRemoteChunk sends the GET.
ReadUrl ==
  /\ ChunkOnly
  /\ urlPc = "idle"
  /\ LET call == fromUrl(byteStart, byteEnd) IN
       IF call.throws
       THEN /\ urlPc' = "rejected"
            /\ urlRes' = Err("negative end unsupported")
            /\ UNCHANGED requests
       ELSE /\ urlPc' = "inflight"
            /\ requests' = Append(requests, RangeHeader(call.range))
            /\ UNCHANGED urlRes
  /\ UNCHANGED <<content, byteStart, byteEnd, bufRes, fileRes, blobRes,
                 attemptLog, retryCount>>

\* The GET in flight ends: fulfilled, or rejected and then retried or given up.
UrlResponse ==
  /\ ChunkOnly
  /\ urlPc = "inflight"
  /\ \E res \in ServerAnswers(content, requests[Len(requests)]) \cup {NetworkError} :
       IF Fulfilled(res)
       THEN /\ attemptLog' = Append(attemptLog, res)
            /\ urlRes' = RemoteChunkResult(res)
            /\ urlPc' = IF RemoteChunkResult(res).kind = "ok"
                        THEN "resolved" ELSE "rejected"
            /\ UNCHANGED <<retryCount>>
       ELSE /\ attemptLog' = Append(attemptLog, res)
            /\ IF ShouldRetry(retryCount)
               THEN /\ retryCount' = retryCount + 1
                    /\ urlPc' = "backoff"
                    /\ UNCHANGED urlRes
               ELSE /\ urlPc' = "rejected"
                    /\ urlRes' = Err("request failed")
                    /\ UNCHANGED retryCount
  /\ UNCHANGED <<content, byteStart, byteEnd, bufRes, fileRes, blobRes, requests>>

\* After retryDelay the same request is sent again.
UrlRetry ==
  /\ ChunkOnly
  /\ urlPc = "backoff"
  /\ urlPc' = "inflight"
  /\ requests' = Append(requests, requests[Len(requests)])
  /\ UNCHANGED <<content, byteStart, byteEnd, bufRes, fileRes, blobRes, urlRes,
                 attemptLog, retryCount>>

ChunkNext ==
  \/ ReadBuffer
  \/ ReadNodeFile
  \/ ReadBrowserFile
  \/ ReadUrl
  \/ UrlResponse
  \/ UrlRetry

----------------------------------------------------------------------------
(* A source of type 'stream': materialised before random access.           *)

RECURSIVE Flatten(_)
Flatten(chunks) ==
  IF chunks = << >> THEN << >>
  ELSE Head(chunks) \o Flatten(Tail(chunks))

Chunk == UNION {[1..k -> Byte] : k \in 1..MaxChunkLen}
ChunkLists == UNION {[1..k -> Chunk] : k \in 0..MaxStreamChunks}

\* Mutant: the read before the last chunk is taken for the end of the stream.
StreamDoneEarly(chunks) == Len(chunks) <= 1

\* streamToBuffer: new Response(stream).arrayBuffer() resolves once a read of
\* the stream reports done, that is, when the stream has no chunk left.
StreamDone(chunks) == chunks = << >>

\* One read of the stream by the body consumer: a chunk is appended to the
\* accumulator, or the stream reports its end and the buffer is complete.
PullStream ==
  /\ sPc = "reading"
  /\ streamPulls' = streamPulls + 1
  /\ IF StreamDone(streamChunks)
     THEN /\ streamEnds' = streamEnds + 1
          /\ sPc' = "buffered"
          /\ UNCHANGED <<streamChunks, accumulator>>
     ELSE /\ accumulator' = accumulator \o Head(streamChunks)
          /\ streamChunks' = Tail(streamChunks)
          /\ UNCHANGED <<streamEnds, sPc>>
  /\ UNCHANGED <<srcKind, streamAll, sNumReads, sLastRead>>

\* makeChunkable: buf = await streamToBuffer(source.location)
streamToBuffer ==
  /\ StreamOnly
  /\ srcKind = "makeChunkable"
  /\ PullStream

\* fromDataSource, case 'stream': await location.toBuffer()
toBuffer ==
  /\ StreamOnly
  /\ srcKind = "fromDataSource"
  /\ PullStream

\* The await is over: fromBuffer(buf) is built and returned to the caller.
ReturnChunker ==
  /\ StreamOnly
  /\ sPc = "buffered"
  /\ sPc' = "ready"
  /\ UNCHANGED <<srcKind, streamAll, streamChunks, streamPulls, streamEnds,
                 accumulator, sNumReads, sLastRead>>

\* The caller reads a range through the chunker it was given.
ChunkerRead ==
  /\ StreamOnly
  /\ sPc = "ready"
  /\ sNumReads < MaxStreamReads
  /\ \E a \in 0..Len(accumulator) : \E b \in a..Len(accumulator) :
       sLastRead' = [start |-> a, end |-> b,
                     res |-> fromBuffer(accumulator, Some(a), Some(b))]
  /\ sNumReads' = sNumReads + 1
  /\ UNCHANGED <<srcKind, streamAll, streamChunks, streamPulls, streamEnds,
                 accumulator, sPc>>

NoRead == [start |-> 0, end |-> 0, res |-> NoRes]

StreamIdle ==
  /\ streamChunks = streamAll
  /\ streamPulls = 0 /\ streamEnds = 0
  /\ accumulator = << >>
  /\ sPc = "reading"
  /\ sNumReads = 0
  /\ sLastRead = NoRead

StreamInit ==
  /\ srcKind \in {"fromDataSource", "makeChunkable"}
  /\ streamAll \in ChunkLists
  /\ StreamIdle

StreamParked ==
  /\ srcKind = "makeChunkable"
  /\ streamAll = << >>
  /\ StreamIdle

StreamNext ==
  \/ streamToBuffer
  \/ toBuffer
  \/ ReturnChunker
  \/ ChunkerRead

----------------------------------------------------------------------------
(* Upload: the concurrent multipart upload.                                *)

\* Upload.MAX_PARTS. The source sets 10000; the model scales the limit down
\* so that bodies on both sides of it are explored. The code only ever
\* compares uploadedParts.length with it.
MAX_PARTS == 2

\* The check at the head of every iteration of __doConcurrentUpload:
\* if (this.uploadedParts.length > this.MAX_PARTS) throw ...
ExceedsMaxParts(n) == n > MAX_PARTS

\* Mutant: the loop runs once too often (index <= this.queueSize).
NumUploadersOneMore(q) == q + 1

\* __doMultipartUpload: for (index = 0; index < this.queueSize; index++)
\* starts one __doConcurrentUpload per index.
NumUploaders(q) == q

\* getChunk(Body, partSize): the feeder yields parts 1..bodyParts in order
\* and flags the final one with lastPart.
LastPart(p) == p = bodyParts

\* byteLength(dataPart.data): every part is partSize long, the last shorter.
PartBytes(p) == IF p < bodyParts THEN 2 ELSE 1

\* Mutant: the byte count is assigned instead of accumulated.
BytesAfterOverwritten(sofar, p) == PartBytes(p)

\* this.bytesUploadedSoFar += byteLength(dataPart.data)
BytesAfter(sofar, p) == sofar + PartBytes(p)

RECURSIVE InsertPart(_, _)
InsertPart(x, s) ==
  IF s = << >> THEN <<x>>
  ELSE IF x <= Head(s) THEN <<x>> \o s
  ELSE <<Head(s)>> \o InsertPart(x, Tail(s))

\* Mutant: the parts are sent in the order in which they were committed.
SortPartsSkipped(s) == s

\* this.uploadedParts.sort((a, b) => a.PartNumber - b.PartNumber)
RECURSIVE SortParts(_)
SortParts(s) ==
  IF s = << >> THEN << >>
  ELSE InsertPart(Head(s), SortParts(Tail(s)))

Uploaders == DOMAIN wpc

NoneSent == [create |-> 0, part |-> 0, put |-> 0, complete |-> 0, tagging |-> 0]

Count(cmd) == [sent EXCEPT ![cmd] = @ + 1]

UploadIdle ==
  /\ feederNext = 1 /\ feederClosed = FALSE
  /\ wpc = << >> /\ wpart = << >>
  /\ uploadedParts = << >> /\ bytesUploadedSoFar = 0
  /\ uploadId = FALSE /\ createState = "none"
  /\ aborted = FALSE /\ onabortSet = FALSE
  /\ isMultiPart = TRUE
  /\ mpPc = "idle" /\ donePc = "notcalled"
  /\ inFlight = 0 /\ sent = NoneSent
  /\ completeParts = Undefined
  /\ progress = << >>

UploadInit ==
  /\ queueSize \in 1..MaxQueue
  /\ leavePartsOnError \in BOOLEAN
  /\ hasTags \in BOOLEAN
  /\ bodyParts \in 1..MaxBodyParts
  /\ UploadIdle

UploadParked ==
  /\ queueSize = 1 /\ leavePartsOnError = FALSE /\ hasTags = FALSE
  /\ bodyParts = 1
  /\ UploadIdle

\* Mutant: the race is left out and the promise of done() stays pending.
SettleNever(outcome) == donePc

\* The promise of done() is Promise.race([__doMultipartUpload(), __abortTimeout]):
\* it settles as the first of the two does and never changes afterwards.
Settle(outcome) == IF donePc = "pending" THEN outcome ELSE donePc

\* done(): __doMultipartUpload runs up to its await of Promise.all (every
\* uploader is started and waits for the feeder), then __abortTimeout
\* installs onabort on the signal.
Done ==
  /\ UploadOnly
  /\ mpPc = "idle"
  /\ wpc' = [w \in 1..NumUploaders(queueSize) |-> "next"]
  /\ wpart' = [w \in 1..NumUploaders(queueSize) |-> 0]
  /\ mpPc' = "waiting"
  /\ donePc' = "pending"
  /\ onabortSet' = TRUE
  /\ UNCHANGED <<uploadConfig, feederNext, feederClosed, uploadedParts,
                 bytesUploadedSoFar, uploadId, createState, aborted,
                 isMultiPart, inFlight, sent, completeParts, progress>>

\* abort(): the signal becomes aborted; an installed onabort runs once and
\* rejects the promise of __abortTimeout with AbortError.
Abort ==
  /\ UploadOnly
  /\ ~aborted
  /\ aborted' = TRUE
  /\ onabortSet' = FALSE
  /\ donePc' = IF onabortSet THEN Settle("rejectedAbort") ELSE donePc
  /\ UNCHANGED <<uploadConfig, feederNext, feederClosed, wpc, wpart,
                 uploadedParts, bytesUploadedSoFar, uploadId, createState,
                 isMultiPart, mpPc, inFlight, sent, completeParts, progress>>

\* An uploader leaves the for-await loop by return or throw: the generator
\* is returned, so no uploader is handed another part.
Leave(w, how) ==
  /\ wpc' = [wpc EXCEPT ![w] = how]
  /\ feederClosed' = TRUE

\* new UploadPartCommand({ UploadId, Body, PartNumber }) is sent.
SendPart(w) ==
  /\ wpc' = [wpc EXCEPT ![w] = "uploading"]
  /\ inFlight' = inFlight + 1
  /\ sent' = Count("part")

\* Mutant: the signal is not looked at before a part is started.
StopBeforePartNever == FALSE

\* if (this.abortController.signal.aborted) { return; } at the head of the
\* try block and again after the await of __createMultipartUpload.
StopBeforePart == aborted

\* Mutant: lastPart is not looked at.
UsePutFirstPart(p) == p = 1

\* if (dataPart.partNumber === 1 && dataPart.lastPart): use put instead of
\* multi-part for one chunk uploads.
UsePut(p) == p = 1 /\ LastPart(p)

\* Mutant: the command is sent again while its answer is awaited.
CreateNotStartedOrPending == createState \in {"none", "pending"}

\* if (!this.createMultiPartPromise) in __createMultipartUpload
CreateNotStarted == createState = "none"

\* An uploader is handed the feeder's next part and runs the loop body up to
\* its first await; or the feeder is exhausted and the uploader finishes.
Fetch(w) ==
  /\ UploadOnly
  /\ wpc[w] = "next"
  /\ IF feederClosed \/ feederNext > bodyParts
     THEN /\ wpc' = [wpc EXCEPT ![w] = "finished"]
          /\ UNCHANGED <<feederNext, feederClosed, wpart, isMultiPart,
                         createState, inFlight, sent>>
     ELSE /\ feederNext' = feederNext + 1
          /\ wpart' = [wpart EXCEPT ![w] = feederNext]
          /\ IF ExceedsMaxParts(Len(uploadedParts))
             THEN /\ Leave(w, "threw")
                  /\ UNCHANGED <<isMultiPart, createState, inFlight, sent>>
             ELSE IF StopBeforePart
             THEN /\ Leave(w, "finished")
                  /\ UNCHANGED <<isMultiPart, createState, inFlight, sent>>
             ELSE IF UsePut(feederNext)
             THEN \* __uploadUsingPut: PutObjectCommand
                  /\ isMultiPart' = FALSE
                  /\ wpc' = [wpc EXCEPT ![w] = "putting"]
                  /\ inFlight' = inFlight + 1
                  /\ sent' = Count("put")
                  /\ UNCHANGED <<feederClosed, createState>>
             ELSE IF ~uploadId
             THEN \* __createMultipartUpload: one CreateMultipartUploadCommand
                  /\ wpc' = [wpc EXCEPT ![w] = "creating"]
                  /\ IF CreateNotStarted
                     THEN /\ createState' = "pending"
                          /\ sent' = Count("create")
                     ELSE UNCHANGED <<createState, sent>>
                  /\ UNCHANGED <<feederClosed, isMultiPart, inFlight>>
             ELSE /\ SendPart(w)
                  /\ UNCHANGED <<feederClosed, isMultiPart, createState>>
  /\ UNCHANGED <<uploadConfig, uploadedParts, bytesUploadedSoFar, uploadId,
                 aborted, onabortSet, mpPc, donePc, completeParts, progress>>

\* S3 answers the CreateMultipartUploadCommand.
CreateAnswer ==
  /\ UploadOnly
  /\ createState = "pending"
  /\ \E ok \in BOOLEAN : createState' = IF ok THEN "ok" ELSE "failed"
  /\ UNCHANGED <<uploadConfig, feederNext, feederClosed, wpc, wpart,
                 uploadedParts, bytesUploadedSoFar, uploadId, aborted,
                 onabortSet, isMultiPart, mpPc, donePc, inFlight, sent,
                 completeParts, progress>>

\* The catch block of the loop body: rethrow when no upload was created or
\* when leavePartsOnError, swallow the error and go on otherwise.
Catch(w) ==
  IF ~uploadId \/ leavePartsOnError
  THEN Leave(w, "threw")
  ELSE /\ wpc' = [wpc EXCEPT ![w] = "next"]
       /\ UNCHANGED feederClosed

\* An uploader's await of createMultiPartPromise ends.
Created(w) ==
  /\ UploadOnly
  /\ wpc[w] = "creating"
  /\ createState \in {"ok", "failed"}
  /\ IF createState = "ok"
     THEN /\ uploadId' = TRUE
          /\ IF StopBeforePart
             THEN /\ Leave(w, "finished")
                  /\ UNCHANGED <<inFlight, sent>>
             ELSE /\ SendPart(w)
                  /\ UNCHANGED feederClosed
     ELSE /\ Catch(w)
          /\ UNCHANGED <<uploadId, inFlight, sent>>
  /\ UNCHANGED <<uploadConfig, feederNext, wpart, uploadedParts,
                 bytesUploadedSoFar, createState, aborted, onabortSet,
                 isMultiPart, mpPc, donePc, completeParts, progress>>

\* S3 answers an UploadPartCommand.
PartAnswer(w) ==
  /\ UploadOnly
  /\ wpc[w] = "uploading"
  /\ inFlight' = inFlight - 1
  /\ \E ok \in BOOLEAN :
       IF ok
       THEN IF aborted
            THEN /\ Leave(w, "finished")
                 /\ UNCHANGED <<uploadedParts, bytesUploadedSoFar, progress>>
            ELSE /\ uploadedParts' = Append(uploadedParts, wpart[w])
                 /\ bytesUploadedSoFar' = BytesAfter(bytesUploadedSoFar, wpart[w])
                 /\ progress' = Append(progress, bytesUploadedSoFar')
                 /\ wpc' = [wpc EXCEPT ![w] = "next"]
                 /\ UNCHANGED feederClosed
       ELSE /\ Catch(w)
            /\ UNCHANGED <<uploadedParts, bytesUploadedSoFar, progress>>
  /\ UNCHANGED <<uploadConfig, feederNext, wpart, uploadId, createState,
                 aborted, onabortSet, isMultiPart, mpPc, donePc, sent,
                 completeParts>>

\* S3 answers the PutObjectCommand of __uploadUsingPut.
PutAnswer(w) ==
  /\ UploadOnly
  /\ wpc[w] = "putting"
  /\ inFlight' = inFlight - 1
  /\ \E ok \in BOOLEAN :
       IF ok
       THEN /\ progress' = Append(progress, PartBytes(wpart[w]))
            /\ Leave(w, "finished")
       ELSE /\ Catch(w)
            /\ UNCHANGED progress
  /\ UNCHANGED <<uploadConfig, feederNext, wpart, uploadedParts,
                 bytesUploadedSoFar, uploadId, createState, aborted,
                 onabortSet, isMultiPart, mpPc, donePc, sent, completeParts>>

\* After the upload proper: PutObjectTaggingCommand when there are tags.
Finish ==
  IF hasTags
  THEN /\ mpPc' = "tagging"
       /\ sent' = [sent EXCEPT !["tagging"] = @ + 1]
       /\ UNCHANGED donePc
  ELSE /\ mpPc' = "resolved"
       /\ donePc' = Settle("resolved")
       /\ UNCHANGED sent

\* Mutant: the signal is not looked at once the uploaders have finished.
AbortedAfterAllNever == FALSE

\* if (this.abortController.signal.aborted) { throw AbortError } after the
\* await of Promise.all(this.concurrentUploaders)
AbortedAfterAll == aborted

\* Promise.all(concurrentUploaders) settles: it rejects as soon as one
\* uploader has thrown and resolves when all have finished. On resolution
\* an aborted upload throws AbortError, a multipart one sorts its parts and
\* sends CompleteMultipartUploadCommand, a single put takes its result.
Join ==
  /\ UploadOnly
  /\ mpPc = "waiting"
  /\ IF \E w \in Uploaders : wpc[w] = "threw"
     THEN /\ mpPc' = "rejectedError"
          /\ donePc' = Settle("rejectedError")
          /\ UNCHANGED <<uploadedParts, sent, completeParts>>
     ELSE /\ \A w \in Uploaders : wpc[w] = "finished"
          /\ IF AbortedAfterAll
             THEN /\ mpPc' = "rejectedAbort"
                  /\ donePc' = Settle("rejectedAbort")
                  /\ UNCHANGED <<uploadedParts, sent, completeParts>>
             ELSE IF isMultiPart
             THEN /\ uploadedParts' = SortParts(uploadedParts)
                  /\ completeParts' = Some(uploadedParts')
                  /\ sent' = Count("complete")
                  /\ mpPc' = "completing"
                  /\ UNCHANGED donePc
             ELSE /\ Finish
                  /\ UNCHANGED <<uploadedParts, completeParts>>
  /\ UNCHANGED <<uploadConfig, feederNext, feederClosed, wpc, wpart,
                 bytesUploadedSoFar, uploadId, createState, aborted,
                 onabortSet, isMultiPart, inFlight, progress>>

\* S3 answers the CompleteMultipartUploadCommand.
CompleteAnswer ==
  /\ UploadOnly
  /\ mpPc = "completing"
  /\ \E ok \in BOOLEAN :
       IF ok
       THEN Finish
       ELSE /\ mpPc' = "rejectedError"
            /\ donePc' = Settle("rejectedError")
            /\ UNCHANGED sent
  /\ UNCHANGED <<uploadConfig, feederNext, feederClosed, wpc, wpart,
                 uploadedParts, bytesUploadedSoFar, uploadId, createState,
                 aborted, onabortSet, isMultiPart, inFlight, completeParts,
                 progress>>

\* S3 answers the PutObjectTaggingCommand.
TaggingAnswer ==
  /\ UploadOnly
  /\ mpPc = "tagging"
  /\ \E ok \in BOOLEAN :
       /\ mpPc' = IF ok THEN "resolved" ELSE "rejectedError"
       /\ donePc' = Settle(mpPc')
  /\ UNCHANGED <<uploadConfig, feederNext, feederClosed, wpc, wpart,
                 uploadedParts, bytesUploadedSoFar, uploadId, createState,
                 aborted, onabortSet, isMultiPart, inFlight, sent,
                 completeParts, progress>>

UploadNext ==
  \/ Done
  \/ Abort
  \/ \E w \in Uploaders : Fetch(w)
  \/ CreateAnswer
  \/ \E w \in Uploaders : Created(w)
  \/ \E w \in Uploaders : PartAnswer(w)
  \/ \E w \in Uploaders : PutAnswer(w)
  \/ Join
  \/ CompleteAnswer
  \/ TaggingAnswer

----------------------------------------------------------------------------
(* Upload: the constructor.                                                *)

\* const MIN_PART_SIZE = 1024 * 1024 * 5
MIN_PART_SIZE == 1024 * 1024 * 5

\* private queueSize = 4
DefaultQueueSize == 4

\* options.queueSize || this.queueSize, options.partSize || this.partSize:
\* the option unless it is absent or 0.
NumberOr(o, default) == IF o = Undefined \/ Val(o) = 0 THEN default ELSE Val(o)

\* options.leavePartsOnError || this.leavePartsOnError
BooleanOr(o, default) == IF o = Undefined THEN default ELSE Val(o) \/ default

\* Mutant: the part size is only kept from being negative.
ValidateInputAnyPartSize(hasParams, hasClient, partSize, numUploaders) ==
  IF ~hasParams
  THEN "InputError: Upload requires params to be passed to upload."
  ELSE IF ~hasClient
  THEN "InputError: Upload requires a AWS client to do uploads with."
  ELSE IF partSize < 0 THEN "EntityTooSmall"
  ELSE IF numUploaders < 1
  THEN "Queue size: Must have at least one uploading queue."
  ELSE ""

\* __validateInput: the message of the first Error thrown, or "".
ValidateInput(hasParams, hasClient, partSize, numUploaders) ==
  IF ~hasParams
  THEN "InputError: Upload requires params to be passed to upload."
  ELSE IF ~hasClient
  THEN "InputError: Upload requires a AWS client to do uploads with."
  ELSE IF partSize < MIN_PART_SIZE THEN "EntityTooSmall"
  ELSE IF numUploaders < 1
  THEN "Queue size: Must have at least one uploading queue."
  ELSE ""

\* byteLength(this.params.Body) throws for a Body that is neither null,
\* undefined nor a string and has no numeric byteLength, length or size.
ByteLengthThrows(body) == body = "unsupported"

NoUpload ==
  [state |-> "none", error |-> "", queueSize |-> 0, partSize |-> 0,
   leavePartsOnError |-> FALSE, hasTags |-> FALSE]

\* new Upload(options): the whole constructor. The defaults are replaced
\* by the options that are truthy, __validateInput runs, and the progress
\* fields are set.
UploadConstructor ==
  /\ OptionsOnly
  /\ upload.state = "none"
  /\ LET q == NumberOr(options.queueSize, DefaultQueueSize)
         p == NumberOr(options.partSize, MIN_PART_SIZE)
         err == ValidateInput(options.params, options.client, p, q)
     IN upload' =
          IF err # ""
          THEN [NoUpload EXCEPT !.state = "threw", !.error = err]
          ELSE IF ByteLengthThrows(options.body)
          THEN [NoUpload EXCEPT !.state = "threw",
                                !.error = "Unsupported type"]
          ELSE [state |-> "constructed", error |-> "",
                queueSize |-> q, partSize |-> p,
                leavePartsOnError |->
                  BooleanOr(options.leavePartsOnError, FALSE),
                hasTags |-> options.tags]
  /\ UNCHANGED options

\* The Options tried: queueSize and partSize absent, zero, negative, small
\* and, for partSize, around MIN_PART_SIZE.
OptionsInit ==
  /\ options \in
       [queueSize : {Undefined} \cup
                    {Some(n) : n \in (0 - MaxOptQueue)..MaxOptQueue},
        partSize : {Undefined} \cup
                   {Some(n) : n \in (0 - MaxPartOffset)..MaxPartOffset} \cup
                   {Some(n) : n \in (MIN_PART_SIZE - MaxPartOffset)
                                    ..(MIN_PART_SIZE + MaxPartOffset)},
        leavePartsOnError : {Undefined, Some(FALSE), Some(TRUE)},
        tags : BOOLEAN,
        params : BOOLEAN,
        client : BOOLEAN,
        body : {"absent", "sized", "unsupported"}]
  /\ upload = NoUpload

OptionsParked ==
  /\ options = [queueSize |-> Undefined, partSize |-> Undefined,
                leavePartsOnError |-> Undefined, tags |-> FALSE,
                params |-> TRUE, client |-> TRUE, body |-> "sized"]
  /\ upload = NoUpload

OptionsNext == UploadConstructor

----------------------------------------------------------------------------
(* Client: construction, session keys and the KAS public key.              *)

\* A string is the sequence of its pieces: <<"kas2", "/rewrap">> stands for
\* 'kas2/rewrap' and << >> for the empty string.
KasUrl == <<"kas">>
RewrapUrl == <<"kas2", "/rewrap">>
OtherUrl == <<"kas2">>
BareRewrap == <<"/rewrap">>

\* JavaScript truthiness of an optional string.
Truthy(o) == o # Undefined /\ Val(o) # << >>

\* keyRewrapEndpoint.replace(/\/rewrap$/, '')
StripRewrap(u) ==
  IF u # << >> /\ u[Len(u)] = "/rewrap" THEN SubSeq(u, 1, Len(u) - 1) ELSE u

\* base64.encode(pem): an encoding, told apart from what it encodes
Base64(x) == <<"base64", x>>

\* The key pairs a Client can hold: the one of the config or a generated one.
PublicKey(pair) == <<"publicKey", pair>>

\* isAppIdProviderCheck(provider)
isAppIdProviderCheck(provider) == provider = "appId"

\* ClientConfig, reduced to what the constructor looks at.
Configs ==
  [kasEndpoint : {Undefined, Some(<< >>), Some(KasUrl)},
   keyRewrapEndpoint : {Undefined, Some(<< >>), Some(BareRewrap),
                        Some(RewrapUrl), Some(OtherUrl)},
   authProvider : {"none", "custom", "appId"},
   clientId : BOOLEAN,
   clientSecret : BOOLEAN,
   refreshToken : BOOLEAN,
   externalJwt : BOOLEAN,
   keypair : BOOLEAN,
   kasPublicKey : BOOLEAN,
   dpopEnabled : BOOLEAN,
   readerUrl : BOOLEAN]

NoClient ==
  [state |-> "none", error |-> "", kasEndpoint |-> << >>,
   authProvider |-> "none", eas |-> FALSE, readerUrl |-> FALSE,
   dpopEnabled |-> FALSE]

Threw(msg) == [NoClient EXCEPT !.state = "threw", !.error = msg]

\* Mutant: keyRewrapEndpoint is compared with undefined, so that an empty
\* string passes.
MissingKasUndefinedOnly(cfg) ==
  ~Truthy(cfg.kasEndpoint) /\ cfg.keyRewrapEndpoint = Undefined

\* if (clientConfig.kasEndpoint) ... else if (!clientConfig.keyRewrapEndpoint) throw
MissingKas(cfg) == ~Truthy(cfg.kasEndpoint) /\ ~Truthy(cfg.keyRewrapEndpoint)

\* this.kasEndpoint as the constructor sets it
KasEndpointOf(cfg) ==
  IF Truthy(cfg.kasEndpoint) THEN Val(cfg.kasEndpoint)
  ELSE StripRewrap(Val(cfg.keyRewrapEndpoint))

\* this.authProvider as the constructor leaves it: the configured one, or
\* one built from refreshToken, or else from externalJwt, or none at all.
AuthProviderOf(cfg) ==
  IF cfg.authProvider # "none" THEN cfg.authProvider
  ELSE IF cfg.refreshToken THEN "refreshToken"
  ELSE IF cfg.externalJwt THEN "externalJwt"
  ELSE "none"

\* The checks of the constructor in the order of the code: the message of
\* the first Error thrown, or "" when the constructor runs to its end.
ConstructorError(cfg) ==
  IF MissingKas(cfg) THEN "KAS definition not found"
  ELSE IF cfg.authProvider = "none" /\ ~cfg.clientId
  THEN "Client ID or custom AuthProvider must be defined"
  ELSE IF cfg.authProvider = "none" /\ cfg.clientSecret
  THEN "Client credentials not supported in a browser context"
  ELSE ""

NoPromise == [state |-> "none", keypair |-> "none", signingKeys |-> "none"]
NoKey == [state |-> "none", value |-> "none"]
NoEffects == [keygen |-> 0, signgen |-> 0, kasFetch |-> 0]

\* fetchKasPubKey(kasEndpoint) up to its await: an empty endpoint throws
\* TdfError('KAS definition not found'), so the promise is rejected and
\* nothing is fetched; otherwise the KAS is asked for its public key.
fetchKasPubKey(kasEndpoint) ==
  IF kasEndpoint = << >> THEN [state |-> "rejected", value |-> "none"]
  ELSE [state |-> "pending", value |-> "none"]

\* Mutant: the KAS is asked for its key even when one is configured.
KasPublicKeyAlwaysFetched(cfg) == fetchKasPubKey(KasEndpointOf(cfg))

\* this.kasPublicKey as the constructor sets it: the configured key, or the
\* promise of fetchKasPubKey(this.kasEndpoint).
KasPublicKeyPromise(cfg) ==
  IF cfg.kasPublicKey THEN [state |-> "resolved", value |-> "configured"]
  ELSE fetchKasPubKey(KasEndpointOf(cfg))

\* Mutant: the signing keys are left out of the call.
UpdateArgsNoSigning(k2, signing) ==
  [publicKey |-> Base64(PublicKey(k2)), signingKeys |-> "none"]

\* Mutant: the PEM is sent as it is.
UpdateArgsRawPem(k2, signing) ==
  [publicKey |-> PublicKey(k2), signingKeys |-> signing]

\* authProvider.updateClientPublicKey(base64.encode(k2.publicKey), signingKeys)
UpdateArgs(k2, signing) ==
  [publicKey |-> Base64(PublicKey(k2)), signingKeys |-> signing]

\* createSessionKeys from the point where the key pair k2 is known: with
\* dpopEnabled the signing keys are generated first (an await); then
\* updateClientPublicKey is called on an auth provider that is not an AppId
\* one (an await), or the promise resolves at once.
AfterKeyPair(k2, signing) ==
  IF client.dpopEnabled /\ signing = "none"
  THEN /\ sessionKeys' = [state |-> "signing", keypair |-> k2,
                          signingKeys |-> "none"]
       /\ effects' = [effects EXCEPT !.signgen = @ + 1]
       /\ UNCHANGED authLog
  ELSE IF client.authProvider # "none" /\ ~isAppIdProviderCheck(client.authProvider)
  THEN /\ sessionKeys' = [state |-> "updating", keypair |-> k2,
                          signingKeys |-> signing]
       /\ authLog' = Append(authLog, UpdateArgs(k2, signing))
       /\ UNCHANGED effects
  ELSE /\ sessionKeys' = [state |-> "resolved", keypair |-> k2,
                          signingKeys |-> signing]
       /\ UNCHANGED <<authLog, effects>>

\* new Client(config): the whole constructor. It throws at the first check
\* that fails; otherwise it sets the fields, starts createSessionKeys (which
\* runs up to its await of generateKeyPair) unless a keypair is configured,
\* and starts fetchKasPubKey unless a kasPublicKey is configured.
ClientConstructor ==
  /\ ClientOnly
  /\ client.state = "none"
  /\ IF ConstructorError(config) # ""
     THEN /\ client' = Threw(ConstructorError(config))
          /\ UNCHANGED <<sessionKeys, kasPublicKey, effects>>
     ELSE /\ client' = [state |-> "constructed", error |-> "",
                        kasEndpoint |-> KasEndpointOf(config),
                        authProvider |-> AuthProviderOf(config),
                        eas |-> isAppIdProviderCheck(config.authProvider),
                        readerUrl |-> config.readerUrl,
                        dpopEnabled |-> config.dpopEnabled]
          /\ sessionKeys' =
               IF config.keypair
               THEN [state |-> "resolved", keypair |-> "configured",
                     signingKeys |-> "none"]
               ELSE [state |-> "generating", keypair |-> "none",
                     signingKeys |-> "none"]
          /\ kasPublicKey' = KasPublicKeyPromise(config)
          /\ effects' =
               [effects EXCEPT
                  !.keygen = IF config.keypair THEN @ ELSE @ + 1,
                  !.kasFetch = IF kasPublicKey'.state = "pending"
                               THEN @ + 1 ELSE @]
  /\ UNCHANGED <<config, authLog, calls>>

\* createSessionKeys: generateKeyPair and cryptoToPemPair have resolved.
KeyPairGenerated ==
  /\ ClientOnly
  /\ sessionKeys.state = "generating"
  /\ AfterKeyPair("generated", "none")
  /\ UNCHANGED <<config, client, kasPublicKey, calls>>

\* createSessionKeys: crypto.subtle.generateKey has resolved.
SigningKeysGenerated ==
  /\ ClientOnly
  /\ sessionKeys.state = "signing"
  /\ AfterKeyPair(sessionKeys.keypair, "generated")
  /\ UNCHANGED <<config, client, kasPublicKey, calls>>

\* The auth provider answers updateClientPublicKey.
UpdateAnswer ==
  /\ ClientOnly
  /\ sessionKeys.state = "updating"
  /\ \E ok \in BOOLEAN :
       sessionKeys' = [sessionKeys EXCEPT
                         !.state = IF ok THEN "resolved" ELSE "rejected"]
  /\ UNCHANGED <<config, client, kasPublicKey, authLog, effects, calls>>

\* fetchKasPubKey: TDF.getPublicKeyFromKeyAccessServer resolves or throws.
KasKeyAnswer ==
  /\ ClientOnly
  /\ kasPublicKey.state = "pending"
  /\ \E ok \in BOOLEAN :
       kasPublicKey' = IF ok THEN [state |-> "resolved", value |-> "fetched"]
                       ELSE [state |-> "rejected", value |-> "none"]
  /\ UNCHANGED <<config, client, sessionKeys, authLog, effects, calls>>

ClientIdle ==
  /\ client = NoClient
  /\ sessionKeys = NoPromise
  /\ kasPublicKey = NoKey
  /\ authLog = << >>
  /\ effects = NoEffects
  /\ calls = << >>

ClientInit ==
  /\ config \in Configs
  /\ ClientIdle

ClientParked ==
  /\ config = [kasEndpoint |-> Some(KasUrl), keyRewrapEndpoint |-> Undefined,
               authProvider |-> "custom", clientId |-> FALSE,
               clientSecret |-> FALSE, refreshToken |-> FALSE,
               externalJwt |-> FALSE, keypair |-> FALSE,
               kasPublicKey |-> FALSE, dpopEnabled |-> FALSE,
               readerUrl |-> FALSE]
  /\ ClientIdle

ClientNext ==
  \/ ClientConstructor
  \/ KeyPairGenerated
  \/ SigningKeysGenerated
  \/ UpdateAnswer
  \/ KasKeyAnswer

----------------------------------------------------------------------------
(* Client: encrypt and decrypt.                                            *)

\* Byte counts are in units of 1,000,000 bytes: the source's
\* 64 * 1000 * 1000 * 1000 and 100 * 1000 * 1000.
GLOBAL_BYTE_LIMIT == 64 * 1000
HTML_BYTE_LIMIT == 100

\* The plaintext sizes tried: at each limit and just above it.
Sizes == {HTML_BYTE_LIMIT, HTML_BYTE_LIMIT + 1,
          GLOBAL_BYTE_LIMIT, GLOBAL_BYTE_LIMIT + 1}

\* Mutant: the two limits are swapped.
ByteLimitSwapped(asHtml) ==
  IF asHtml THEN GLOBAL_BYTE_LIMIT ELSE HTML_BYTE_LIMIT

\* const byteLimit = asHtml ? HTML_BYTE_LIMIT : GLOBAL_BYTE_LIMIT
ByteLimit(asHtml) == IF asHtml THEN HTML_BYTE_LIMIT ELSE GLOBAL_BYTE_LIMIT

\* Mutant: the two key-access types are swapped.
KeyAccessTypeSwapped(offline) == IF offline THEN "remote" ELSE "wrapped"

\* type: offline ? 'wrapped' : 'remote'
KeyAccessType(offline) == IF offline THEN "wrapped" ELSE "remote"

\* tdf.addKeyAccess(entry): the entry joins the key-access list of the TDF.
addKeyAccess(entries, entry) == Append(entries, entry)

\* tdf.writeStream(byteLimit, ...): the writer fails when the plaintext is
\* larger than the byte limit and returns the ciphertext stream otherwise.
writeStream(byteLimit, size) ==
  IF size > byteLimit THEN "rejected" ELSE "resolved"

\* Mutant: the readerUrl is not asked for.
EncryptErrorNoReaderUrl(asHtml, rcaSource) ==
  IF asHtml /\ rcaSource THEN "rca links should be used only with zip format"
  ELSE IF rcaSource /\ client.kasEndpoint = << >>
  THEN "rca links require a kasEndpoint url to be set"
  ELSE ""

\* The checks of encrypt that come before its first await: the message of
\* the Error thrown, or "" when the call goes on.
EncryptError(asHtml, rcaSource) ==
  IF asHtml /\ rcaSource THEN "rca links should be used only with zip format"
  ELSE IF asHtml /\ ~client.readerUrl
  THEN "html container missing required parameter: [readerUrl]"
  ELSE IF rcaSource /\ client.kasEndpoint = << >>
  THEN "rca links require a kasEndpoint url to be set"
  ELSE ""

NewCall(op, asHtml, rcaSource, offline) ==
  [op |-> op, asHtml |-> asHtml, rcaSource |-> rcaSource, offline |-> offline,
   pc |-> "awaitSessionKeys", error |-> "", keypair |-> "none",
   kasPublicKey |-> "none", keyAccess |-> << >>,
   byteLimit |-> Undefined, size |-> Undefined]

Rejected(call, msg) == [call EXCEPT !.pc = "rejected", !.error = msg]

CallIds == DOMAIN calls

\* The EncryptParams tried. An rcaSource is tried with asHtml only: with the
\* zip format and a non-empty kasEndpoint it changes nothing that is
\* modelled (it is passed on to writeStream and sets stream.policyUuid).
EncryptInputs ==
  {in \in [asHtml : BOOLEAN, rcaSource : BOOLEAN, offline : BOOLEAN] :
     in.rcaSource => in.asHtml}

\* Mutant: the call makes a key pair of its own.
TdfKeypairFresh(keys) == "fresh"

\* TDF.create().setPrivateKey(sessionKeys.keypair.privateKey)
\*             .setPublicKey(sessionKeys.keypair.publicKey)
TdfKeypair(keys) == keys.keypair

\* client.encrypt({ source, asHtml, offline, rcaSource, ... }) up to its
\* await of this.sessionKeys; asHtml and offline default to false.
Encrypt ==
  /\ ClientOnly
  /\ client.state = "constructed"
  /\ Len(calls) < MaxCalls
  /\ \E in \in EncryptInputs :
       LET call == NewCall("encrypt", in.asHtml, in.rcaSource, in.offline) IN
       calls' = Append(calls,
                  IF EncryptError(in.asHtml, in.rcaSource) # ""
                  THEN Rejected(call, EncryptError(in.asHtml, in.rcaSource))
                  ELSE call)
  /\ UNCHANGED <<config, client, sessionKeys, kasPublicKey, authLog, effects>>

\* client.decrypt({ source, rcaSource }) up to its await of this.sessionKeys
Decrypt ==
  /\ ClientOnly
  /\ client.state = "constructed"
  /\ Len(calls) < MaxCalls
  /\ calls' = Append(calls, NewCall("decrypt", FALSE, FALSE, FALSE))
  /\ UNCHANGED <<config, client, sessionKeys, kasPublicKey, authLog, effects>>

\* await this.sessionKeys ends for a call. encrypt goes on to await
\* this.kasPublicKey; decrypt sets the keys on a TDF and goes on to the
\* entity object, the chunker and tdf.readStream.
GotSessionKeys(c) ==
  /\ ClientOnly
  /\ calls[c].pc = "awaitSessionKeys"
  /\ sessionKeys.state \in {"resolved", "rejected"}
  /\ calls' =
       [calls EXCEPT ![c] =
          IF sessionKeys.state = "rejected"
          THEN Rejected(@, "updateClientPublicKey failed")
          ELSE [@ EXCEPT !.keypair = TdfKeypair(sessionKeys),
                         !.pc = IF calls[c].op = "encrypt" THEN "awaitKasPublicKey"
                                ELSE "readStream"]]
  /\ UNCHANGED <<config, client, sessionKeys, kasPublicKey, authLog, effects>>

\* await this.kasPublicKey ends for an encrypt call: the TDF is set up with
\* the session keys, tdf.addKeyAccess({ type, url, publicKey }) is called
\* and awaited, the byte limit is chosen and tdf.writeStream(byteLimit, ...)
\* is called.
GotKasPublicKey(c) ==
  /\ ClientOnly
  /\ calls[c].pc = "awaitKasPublicKey"
  /\ kasPublicKey.state \in {"resolved", "rejected"}
  /\ calls' =
       [calls EXCEPT ![c] =
          IF kasPublicKey.state = "rejected"
          THEN Rejected(@, "Retrieving KAS public key failed")
          ELSE [@ EXCEPT
                  !.kasPublicKey = kasPublicKey.value,
                  !.keyAccess =
                     addKeyAccess(@, [type |-> KeyAccessType(calls[c].offline),
                                      url |-> client.kasEndpoint,
                                      publicKey |-> kasPublicKey.value]),
                  !.byteLimit = Some(ByteLimit(calls[c].asHtml)),
                  !.pc = "writeStream"]]
  /\ UNCHANGED <<config, client, sessionKeys, kasPublicKey, authLog, effects>>

\* await tdf.writeStream ends, for a plaintext of some size.
StreamWritten(c) ==
  /\ ClientOnly
  /\ calls[c].pc = "writeStream"
  /\ \E size \in Sizes :
       LET outcome == writeStream(Val(calls[c].byteLimit), size) IN
       calls' = [calls EXCEPT ![c] =
                  [@ EXCEPT !.size = Some(size),
                            !.pc = outcome,
                            !.error = IF outcome = "rejected"
                                      THEN "byte limit exceeded" ELSE ""]]
  /\ UNCHANGED <<config, client, sessionKeys, kasPublicKey, authLog, effects>>

\* tdf.readStream(chunker, ...) settles for a decrypt call.
StreamRead(c) ==
  /\ ClientOnly
  /\ calls[c].pc = "readStream"
  /\ \E ok \in BOOLEAN :
       calls' = [calls EXCEPT ![c] =
                  IF ok THEN [@ EXCEPT !.pc = "resolved"]
                  ELSE Rejected(@, "decrypt failed")]
  /\ UNCHANGED <<config, client, sessionKeys, kasPublicKey, authLog, effects>>

\* The configs the calls are tried on: every kind of auth provider, session
\* keys and KAS public key configured or not, with and without a readerUrl;
\* the KAS endpoint given as kasEndpoint or, for one of them, taken from
\* keyRewrapEndpoint.
UseConfigs ==
  {cfg \in Configs :
     /\ cfg.clientId /\ ~cfg.clientSecret
     /\ ~cfg.refreshToken /\ ~cfg.externalJwt
     /\ ~cfg.dpopEnabled
     /\ \/ cfg.kasEndpoint = Some(KasUrl) /\ cfg.keyRewrapEndpoint = Undefined
        \/ /\ cfg.kasEndpoint = Undefined
           /\ cfg.keyRewrapEndpoint = Some(RewrapUrl)
           /\ cfg.authProvider = "custom"
           /\ cfg.keypair /\ cfg.kasPublicKey /\ cfg.readerUrl}

ClientUseInit ==
  /\ config \in UseConfigs
  /\ ClientIdle

ClientUseNext ==
  \/ ClientConstructor
  \/ KeyPairGenerated
  \/ UpdateAnswer
  \/ KasKeyAnswer
  \/ Encrypt
  \/ Decrypt
  \/ \E c \in CallIds : GotSessionKeys(c)
  \/ \E c \in CallIds : GotKasPublicKey(c)
  \/ \E c \in CallIds : StreamWritten(c)
  \/ \E c \in CallIds : StreamRead(c)

----------------------------------------------------------------------------
(* DecoratedReadableStream: the stream it builds and toFile.               *)

\* new ReadableStream(underlyingSource, { highWaterMark: 1 }); no size
\* function is given, so every chunk counts as 1.
highWaterMark == 1

\* The chunks are numbered 1, 2, ... in the order the source enqueues them.
ChunkResult(c) == [kind |-> "chunk", value |-> c]
DoneResult == [kind |-> "done", value |-> 0]
ErrorResult == [kind |-> "error", value |-> 0]

\* A stream not yet built. delivered holds the result of a reader.read()
\* that has settled and that the reader has not yet taken up; pulledAt is
\* history: the queue lengths at which pull was called.
NoStream ==
  [state |-> "none", queue |-> << >>, produced |-> 0, started |-> FALSE,
   pulling |-> FALSE, pullAgain |-> FALSE, closeRequested |-> FALSE,
   readRequest |-> FALSE, delivered |-> Undefined, pulledAt |-> {}]

\* Mutant: the queue is not counted.
DesiredSizeIgnoringQueue(s) == highWaterMark

\* desiredSize of the controller: highWaterMark less the queue's total size
DesiredSize(s) == highWaterMark - Len(s.queue)

\* The stream calls pull when it is readable and started, no close was
\* requested, and a read request waits or desiredSize is positive.
ShouldCallPull(s) ==
  /\ s.state = "readable" /\ ~s.closeRequested /\ s.started
  /\ s.readRequest \/ DesiredSize(s) > 0

\* While a pull is under way the need for another is noted; otherwise
\* underlyingSource.pull(controller) is called.
CallPullIfNeeded(s) ==
  IF ~ShouldCallPull(s) THEN s
  ELSE IF s.pulling THEN [s EXCEPT !.pullAgain = TRUE]
  ELSE [s EXCEPT !.pulling = TRUE, !.pulledAt = @ \cup {Len(s.queue)}]

\* controller.enqueue(chunk): the chunk settles a waiting read request or
\* joins the queue.
Enqueue(s, c) ==
  CallPullIfNeeded(
    IF s.readRequest
    THEN [s EXCEPT !.readRequest = FALSE, !.delivered = Some(ChunkResult(c))]
    ELSE [s EXCEPT !.queue = Append(@, c)])

\* The source enqueues its next k chunks in one call.
RECURSIVE EnqueueMany(_, _)
EnqueueMany(s, k) ==
  IF k = 0 THEN s
  ELSE EnqueueMany(Enqueue([s EXCEPT !.produced = @ + 1], s.produced + 1),
                   k - 1)

\* controller.close(): the stream closes once its queue is empty, and a
\* waiting read request is settled with done.
CloseStream(s) ==
  IF s.queue # << >> THEN [s EXCEPT !.closeRequested = TRUE]
  ELSE [s EXCEPT !.closeRequested = TRUE, !.state = "closed",
                 !.readRequest = FALSE,
                 !.delivered = IF s.readRequest THEN Some(DoneResult) ELSE @]

\* controller.error(e): the queue is dropped and a waiting read request is
\* rejected.
ErrorStream(s) ==
  [s EXCEPT !.state = "errored", !.queue = << >>, !.readRequest = FALSE,
            !.delivered = IF s.readRequest THEN Some(ErrorResult) ELSE @]

\* reader.read(): a queued chunk is handed over at once (and the stream
\* closes if that was the last one after close()); a closed stream reports
\* done, an errored one rejects; otherwise the request waits.
Read(s) ==
  IF s.state = "errored" THEN [s EXCEPT !.delivered = Some(ErrorResult)]
  ELSE IF s.queue # << >>
  THEN LET s1 == [s EXCEPT !.queue = Tail(@),
                           !.delivered = Some(ChunkResult(Head(s.queue)))] IN
       IF s1.closeRequested /\ s1.queue = << >>
       THEN [s1 EXCEPT !.state = "closed"]
       ELSE CallPullIfNeeded(s1)
  ELSE IF s.state = "closed" THEN [s EXCEPT !.delivered = Some(DoneResult)]
  ELSE CallPullIfNeeded([s EXCEPT !.readRequest = TRUE])

\* new DecoratedReadableStream(underlyingSource): the ReadableStream is
\* built and start(controller) runs; the source may enqueue chunks and
\* close the stream there already.
DecoratedConstructor ==
  /\ DecoratedOnly
  /\ rs.state = "none"
  /\ \E k \in 0..Min(source.perCall, source.total), close \in BOOLEAN :
       /\ close => k = source.total
       /\ LET s1 == EnqueueMany([NoStream EXCEPT !.state = "readable"], k) IN
          rs' = IF close THEN CloseStream(s1) ELSE s1
  /\ UNCHANGED <<source, env, toFilePc, readLog, sink, writePending,
                 writerClosed>>

\* The promise of start() resolves: the stream is started.
StartResolved ==
  /\ DecoratedOnly
  /\ rs.state # "none" /\ ~rs.started
  /\ rs' = CallPullIfNeeded([rs EXCEPT !.started = TRUE])
  /\ UNCHANGED <<source, env, toFilePc, readLog, sink, writePending,
                 writerClosed>>

\* A call of underlyingSource.pull(controller) ends: the source has
\* enqueued some of its chunks and may have closed the stream after the
\* last one, or it has failed. The stream then pulls again if that was
\* asked for meanwhile.
PullSettled ==
  /\ DecoratedOnly
  /\ rs.pulling
  /\ \E k \in 0..Min(source.perCall, source.total - rs.produced),
        close \in BOOLEAN, failed \in BOOLEAN :
       /\ close => rs.produced + k = source.total
       /\ k = 0 => close \/ failed
       /\ failed => k = 0 /\ ~close
       /\ LET s1 == EnqueueMany(rs, k)
              s2 == IF failed THEN ErrorStream(s1)
                    ELSE IF close THEN CloseStream(s1) ELSE s1
              s3 == [s2 EXCEPT !.pulling = FALSE, !.pullAgain = FALSE]
          IN rs' = IF s2.pullAgain THEN CallPullIfNeeded(s3) ELSE s3
  /\ UNCHANGED <<source, env, toFilePc, readLog, sink, writePending,
                 writerClosed>>

\* toFile(filepath, options) up to its first await: an encoding given as a
\* string is refused; Firefox hands the stream to fileSave; where
\* WritableStream is truthy the stream is piped to the file stream; where
\* it is not declared its mention throws; otherwise the manual pump starts
\* with its first reader.read().
ToFile ==
  /\ DecoratedOnly
  /\ rs.state # "none" /\ toFilePc = "idle"
  /\ IF env.options = "string"
     THEN toFilePc' = "rejectedEncoding" /\ UNCHANGED rs
     ELSE IF env.firefox
     THEN toFilePc' = "fileSave" /\ UNCHANGED rs
     ELSE IF env.WritableStream = "undeclared"
     THEN toFilePc' = "rejectedReference" /\ UNCHANGED rs
     ELSE IF env.WritableStream = "truthy"
     THEN toFilePc' = "pipeTo" /\ UNCHANGED rs
     ELSE toFilePc' = "reading" /\ rs' = Read(rs)
  /\ UNCHANGED <<source, env, readLog, sink, writePending, writerClosed>>

\* pump: const res = await reader.read() ends. On done writer.close() is
\* called; otherwise writer.write(res.value).
ReadSettled ==
  /\ DecoratedOnly
  /\ toFilePc = "reading" /\ rs.delivered # Undefined
  /\ rs' = [rs EXCEPT !.delivered = Undefined]
  /\ LET res == Val(rs.delivered) IN
     IF res.kind = "done"
     THEN /\ writerClosed' = TRUE
          /\ toFilePc' = "closing"
          /\ UNCHANGED <<readLog, writePending>>
     ELSE IF res.kind = "error"
     THEN /\ toFilePc' = "rejected"
          /\ UNCHANGED <<readLog, writePending, writerClosed>>
     ELSE /\ readLog' = Append(readLog, res.value)
          /\ writePending' = Some(res.value)
          /\ toFilePc' = "writing"
          /\ UNCHANGED writerClosed
  /\ UNCHANGED <<source, env, sink>>

\* Mutant: the writer puts the chunk in front of what it has written.
SinkAfterPrepended(written, chunk) == <<chunk>> \o written

\* writer.write(res.value): the sink takes the chunk after the others.
SinkAfter(written, chunk) == Append(written, chunk)

\* pump: await writer.write(res.value) ends; on success pump() is called
\* again and issues the next reader.read().
WriteSettled ==
  /\ DecoratedOnly
  /\ toFilePc = "writing"
  /\ writePending' = Undefined
  /\ \E ok \in BOOLEAN :
       IF ok
       THEN /\ sink' = SinkAfter(sink, Val(writePending))
            /\ rs' = Read(rs)
            /\ toFilePc' = "reading"
       ELSE /\ toFilePc' = "rejected"
            /\ UNCHANGED <<sink, rs>>
  /\ UNCHANGED <<source, env, readLog, writerClosed>>

\* pump: await writer.close() ends and toFile settles.
CloseSettled ==
  /\ DecoratedOnly
  /\ toFilePc = "closing"
  /\ \E ok \in BOOLEAN : toFilePc' = IF ok THEN "resolved" ELSE "rejected"
  /\ UNCHANGED <<source, env, rs, readLog, sink, writePending, writerClosed>>

DecoratedIdle ==
  /\ rs = NoStream
  /\ toFilePc = "idle"
  /\ readLog = << >> /\ sink = << >>
  /\ writePending = Undefined /\ writerClosed = FALSE

DecoratedInit ==
  /\ source \in [total : 0..MaxSourceChunks, perCall : 1..MaxPerCall]
  /\ env \in [options : {"none", "string", "object"},
              firefox : BOOLEAN,
              WritableStream : {"truthy", "falsy", "undeclared"}]
  /\ DecoratedIdle

DecoratedParked ==
  /\ source = [total |-> 0, perCall |-> 1]
  /\ env = [options |-> "none", firefox |-> FALSE,
            WritableStream |-> "truthy"]
  /\ DecoratedIdle

DecoratedNext ==
  \/ DecoratedConstructor
  \/ StartResolved
  \/ PullSettled
  \/ ToFile
  \/ ReadSettled
  \/ WriteSettled
  \/ CloseSettled

----------------------------------------------------------------------------
(* Properties of the chunk sources, checked under SpecChunk.               *)

BothGiven == byteStart # Undefined /\ byteEnd # Undefined
LocalDone == bufRes # NoRes /\ fileRes # NoRes /\ blobRes # NoRes

\* C1: for every chunker variant over content S and all 0 <= a <= b <= |S|
\* (a = b and a = 0 included), read(a, b) resolves to exactly S[a:b], b
\* exclusive. fromNodeFile and fromUrl break it on the empty range a = b.
C1_ReadIsSlice ==
  (/\ BothGiven
   /\ 0 <= Val(byteStart) /\ Val(byteStart) <= Val(byteEnd)
   /\ Val(byteEnd) <= Len(content))
  => LET expected == Ok(Slice(content, Val(byteStart), Val(byteEnd))) IN
       /\ bufRes # NoRes => bufRes = expected
       /\ fileRes # NoRes => fileRes = expected
       /\ urlPc = "resolved" => urlRes = expected

\* C2: whenever none of fromBuffer, fromNodeFile and fromUrl rejects an
\* argument pair, the three return the same bytes. An absent start with a
\* given end breaks it: fromUrl then sends no Range at all.
C2_VariantsAgree ==
  (bufRes.kind = "ok" /\ fileRes.kind = "ok" /\ urlPc = "resolved")
  => (bufRes.data = fileRes.data /\ fileRes.data = urlRes.data)

\* C3: with both bounds absent every variant returns the full content, and
\* fromUrl does so with GETs that carry no Range header.
C3_AbsentBoundsReadAll ==
  (byteStart = Undefined /\ byteEnd = Undefined)
  => /\ bufRes # NoRes => bufRes = Ok(content)
     /\ fileRes # NoRes => fileRes = Ok(content)
     /\ blobRes # NoRes => blobRes = Ok(content)
     /\ urlPc = "resolved" => urlRes = Ok(content)
     /\ \A i \in 1..Len(requests) : requests[i] = Undefined

C3_Witness ==
  /\ byteStart = Undefined /\ byteEnd = Undefined
  /\ Len(content) = MaxLen
  /\ LocalDone
  /\ urlPc = "resolved" /\ requests = <<Undefined>>

\* C4: read(-k) with no end, k > 0, returns S[max(0, |S| - k):] for every
\* variant: the last k bytes, or everything when k exceeds the size.
C4_NegativeStartReadsTail ==
  (byteStart # Undefined /\ Val(byteStart) < 0 /\ byteEnd = Undefined)
  => LET from == Max(0, Len(content) + Val(byteStart))
         expected == Ok(Slice(content, from, Len(content)))
     IN  /\ bufRes # NoRes => bufRes = expected
         /\ fileRes # NoRes => fileRes = expected
         /\ blobRes # NoRes => blobRes = expected
         /\ urlPc = "resolved" => urlRes = expected

C4_Witness ==
  /\ byteEnd = Undefined
  /\ byteStart # Undefined /\ Val(byteStart) < 0
  /\ Abs(Val(byteStart)) > Len(content) /\ Len(content) > 0
  /\ LocalDone /\ fileRes = Ok(content)
  /\ urlPc = "resolved"

\* C5: fromUrl called with a byteStart and a negative byteEnd fails with
\* 'negative end unsupported' and sends no HTTP request for that call.
C5_NegativeEndRejected ==
  (BothGiven /\ Val(byteEnd) < 0)
  => /\ requests = << >>
     /\ urlPc \in {"idle", "rejected"}
     /\ urlPc = "rejected" => urlRes = Err("negative end unsupported")

C5_Witness ==
  /\ BothGiven /\ Val(byteEnd) < 0
  /\ urlPc = "rejected" /\ requests = << >>

\* C6: fromBuffer and fromNodeFile accept a negative end: for a >= 0, k > 0
\* and a <= |S| - k, read(a, -k) returns S[a : |S| - k]. fromNodeFile breaks
\* it at a = |S| - k, the empty range of C1.
C6_LocalNegativeEnd ==
  (/\ BothGiven
   /\ Val(byteStart) >= 0 /\ Val(byteEnd) < 0
   /\ Val(byteStart) <= Len(content) + Val(byteEnd))
  => LET expected ==
           Ok(Slice(content, Val(byteStart), Len(content) + Val(byteEnd)))
     IN  /\ bufRes # NoRes => bufRes = expected
         /\ fileRes # NoRes => fileRes = expected

\* C7: a remote read is rejected only after the first GET and 3 retries
\* have all failed; it resolves with the body of the first GET that
\* succeeds; and no GET is sent after a success or after the last retry.
C7_RetryThenSettle ==
  /\ Len(requests) <= retries + 1
  /\ (urlPc = "rejected" /\ requests # << >>)
     => /\ Len(requests) = retries + 1
        /\ Len(attemptLog) = retries + 1
        /\ \A i \in 1..Len(attemptLog) : ~Fulfilled(attemptLog[i])
  /\ urlPc = "resolved"
     => /\ Len(requests) = Len(attemptLog)
        /\ \A i \in 1..(Len(attemptLog) - 1) : ~Fulfilled(attemptLog[i])
        /\ Fulfilled(attemptLog[Len(attemptLog)])
        /\ urlRes = Ok(Val(attemptLog[Len(attemptLog)].data))

C7_Witness ==
  /\ urlPc = "resolved"
  /\ Len(requests) = retries + 1
  /\ Len(content) > 0

----------------------------------------------------------------------------
(* Properties of the stream materialisation, checked under SpecStream.     *)

\* C8: a source of type 'stream' is read to its end exactly once before the
\* chunker is returned; every later chunker read, however many, is served
\* from that buffer and never reads the stream again.
C8_StreamReadOnce ==
  /\ sPc # "ready" => sNumReads = 0
  /\ sPc = "ready"
     => /\ streamChunks = << >>
        /\ streamEnds = 1
        /\ streamPulls = Len(streamAll) + 1
        /\ accumulator = Flatten(streamAll)
  /\ sNumReads > 0
     => sLastRead.res =
          Ok(Slice(Flatten(streamAll), sLastRead.start, sLastRead.end))

C8_Witness ==
  /\ srcKind = "makeChunkable"
  /\ sPc = "ready"
  /\ Len(streamAll) >= 2
  /\ sNumReads >= 2
  /\ sLastRead.end > sLastRead.start

----------------------------------------------------------------------------
(* Properties of the Upload, checked under SpecUpload.                     *)

Holding == {w \in Uploaders : wpc[w] \in {"creating", "uploading", "putting"}}

\* C9: in every reachable state of an Upload uploadedParts.length is at
\* most MAX_PARTS, and a Body that needs more parts makes done() reject.
\* The check `uploadedParts.length > MAX_PARTS` runs before a part is
\* uploaded, so it lets part MAX_PARTS + 1 (and more, with several
\* uploaders) through.
C9_PartsWithinLimit ==
  /\ Len(uploadedParts) <= MAX_PARTS
  /\ bodyParts > MAX_PARTS => donePc # "resolved"

\* C10: at every moment during done() the number of part requests in
\* flight (UploadPartCommand or PutObjectCommand sent and not yet answered)
\* and the number of part buffers held by uploaders are at most queueSize.
C10_InFlightBounded ==
  /\ inFlight <= queueSize
  /\ Cardinality(Holding) <= queueSize

C10_Witness ==
  /\ queueSize >= 2
  /\ inFlight = queueSize
  /\ donePc = "pending"

\* C11: for every interleaving of the concurrent part uploads, the Parts
\* list of the CompleteMultipartUploadCommand is strictly ascending by
\* PartNumber, whatever the order in which the parts were committed.
C11_PartsAscending ==
  completeParts # Undefined
  => \A i \in 1..(Len(Val(completeParts)) - 1) :
       Val(completeParts)[i] < Val(completeParts)[i + 1]

\* The final (shortest, highest-numbered) part was committed first, as the
\* first progress event shows, and CompleteMultipartUpload was sent.
C11_Witness ==
  /\ completeParts # Undefined
  /\ Len(Val(completeParts)) >= 2
  /\ progress[1] = PartBytes(bodyParts)
  /\ sent.complete = 1

\* C12: once abort() has been called no new part is started: no step taken
\* while the signal is aborted sends an UploadPartCommand or a
\* PutObjectCommand, by any uploader; requests in flight may still finish.
C12_NoPartAfterAbort ==
  [][aborted => (sent'.part = sent.part /\ sent'.put = sent.put)]_vars

\* Parts the feeder handed out and no uploader is still preparing
Prepared == (feederNext - 1) - Cardinality({w \in Uploaders : wpc[w] = "creating"})

\* abort() came while a request was in flight, and an uploader that had
\* been handed a part afterwards returned without sending it.
C12_Witness ==
  /\ aborted
  /\ inFlight > 0
  /\ \A w \in Uploaders : wpc[w] # "threw"
  /\ Prepared > sent.part + sent.put

\* C13: whenever done() has rejected with AbortError, no
\* CompleteMultipartUploadCommand has been sent, and none is sent later,
\* wherever abort() fell in the upload. An abort() that falls between the
\* sending of CompleteMultipartUpload and its answer breaks it.
C13_AbortPublishesNothing ==
  donePc = "rejectedAbort" => sent.complete = 0

Unsettled == {"notcalled", "pending"}

RECURSIVE SumBytes(_)
SumBytes(s) ==
  IF s = << >> THEN 0 ELSE PartBytes(Head(s)) + SumBytes(Tail(s))

\* C14: cancellation wins. From the moment abort() has been called with
\* done() not yet settled (or not yet invoked), done() never resolves and
\* never rejects with another error, and a pending done() goes on to
\* reject with AbortError.
C14_CancellationWins ==
  /\ [][(aborted' /\ donePc \in Unsettled)
        => donePc' \in Unsettled \cup {"rejectedAbort"}]_vars
  /\ (aborted /\ donePc = "pending") ~> (donePc = "rejectedAbort")

\* abort() came before done(): onabort was installed too late to fire and
\* the rejection came from __doMultipartUpload after every uploader returned.
C14_Witness ==
  /\ aborted
  /\ donePc = "rejectedAbort"
  /\ mpPc = "rejectedAbort"
  /\ onabortSet
  /\ queueSize >= 2

\* C15: in every interleaving of part completions the 'loaded' values of
\* the progress events never decrease, there is one event per committed
\* part, and each value is the sum of the byte lengths of the parts
\* committed up to that event (uploadedParts holds them in commit order
\* until it is sorted for CompleteMultipartUpload).
C15_ProgressCumulative ==
  /\ \A i \in 1..(Len(progress) - 1) : progress[i] <= progress[i + 1]
  /\ isMultiPart
     => /\ Len(progress) = Len(uploadedParts)
        /\ bytesUploadedSoFar = SumBytes(uploadedParts)
        /\ progress # << >> => progress[Len(progress)] = bytesUploadedSoFar
        /\ mpPc = "waiting"
           => \A i \in 1..Len(progress) :
                progress[i] = SumBytes(SubSeq(uploadedParts, 1, i))
  /\ ~isMultiPart
     => /\ Len(progress) <= 1
        /\ \A i \in 1..Len(progress) : progress[i] = PartBytes(1)

\* Three parts were committed by two uploaders, the final part not last.
C15_Witness ==
  /\ queueSize >= 2
  /\ mpPc = "waiting"
  /\ Len(progress) >= 3
  /\ uploadedParts[Len(uploadedParts)] # bodyParts
  /\ bodyParts \in {uploadedParts[i] : i \in 1..Len(uploadedParts)}

----------------------------------------------------------------------------
(* Properties of the Client's construction, checked under SpecClient.      *)

NoKasConfigured ==
  ~Truthy(config.kasEndpoint) /\ ~Truthy(config.keyRewrapEndpoint)

\* C18: new Client(config) with neither a kasEndpoint nor a
\* keyRewrapEndpoint throws 'KAS definition not found' and leaves nothing
\* behind: no session key generated, no auth provider contacted, no fetch
\* of the KAS public key started.
C18_NoKasThrows ==
  (NoKasConfigured /\ client.state # "none")
  => /\ client = Threw("KAS definition not found")
     /\ sessionKeys = NoPromise
     /\ kasPublicKey = NoKey
     /\ authLog = << >>
     /\ effects = NoEffects

\* The constructor threw on a config that would otherwise have generated
\* session keys, called the auth provider and fetched the KAS key.
C18_Witness ==
  /\ NoKasConfigured
  /\ client.state = "threw"
  /\ config.authProvider = "custom"
  /\ ~config.keypair /\ ~config.kasPublicKey

\* C19: new Client(config) with neither an authProvider nor a clientId
\* throws 'Client ID or custom AuthProvider must be defined' (after the KAS
\* check, which comes first), and every Client that was constructed has an
\* auth provider: the configured one, or one built from refreshToken or
\* externalJwt. A config with a clientId and neither token breaks it: the
\* constructor succeeds and leaves authProvider undefined.
C19_AuthProviderRequired ==
  /\ (config.authProvider = "none" /\ ~config.clientId /\ client.state # "none")
     => /\ client.state = "threw"
        /\ ~NoKasConfigured
           => client.error = "Client ID or custom AuthProvider must be defined"
  /\ client.state = "constructed"
     => client.authProvider \in {"custom", "appId", "refreshToken", "externalJwt"}

----------------------------------------------------------------------------
(* Properties of encrypt and decrypt, checked under SpecClientUse.         *)

Encrypts == {c \in CallIds : calls[c].op = "encrypt"}

\* C16: encrypt hands writeStream the byte limit 100,000,000 exactly when
\* asHtml is true and 64,000,000,000 otherwise, and a plaintext larger than
\* that limit makes the call fail: it never returns a ciphertext stream.
C16_ByteLimitApplied ==
  \A c \in Encrypts :
    /\ calls[c].byteLimit # Undefined
       => Val(calls[c].byteLimit) =
            IF calls[c].asHtml THEN HTML_BYTE_LIMIT ELSE GLOBAL_BYTE_LIMIT
    /\ calls[c].size # Undefined
       => /\ calls[c].byteLimit # Undefined
          /\ calls[c].pc = IF Val(calls[c].size) > Val(calls[c].byteLimit)
                           THEN "rejected" ELSE "resolved"
    /\ calls[c].pc = "resolved" => calls[c].size # Undefined

\* The same plaintext, just above the HTML limit, failed as HTML and went
\* through as ZIP.
C16_Witness ==
  \E c, d \in Encrypts :
    /\ calls[c].asHtml /\ ~calls[d].asHtml
    /\ calls[c].size = Some(HTML_BYTE_LIMIT + 1)
    /\ calls[d].size = Some(HTML_BYTE_LIMIT + 1)
    /\ calls[c].pc = "rejected" /\ calls[d].pc = "resolved"

\* C17: every encrypt call that gets to build its TDF adds exactly one
\* key-access entry (a call that fails before adds none), whose url is the
\* Client's kasEndpoint and whose type is 'wrapped' if offline is true and
\* 'remote' otherwise.
C17_OneKeyAccess ==
  \A c \in Encrypts :
    /\ Len(calls[c].keyAccess) =
         IF calls[c].kasPublicKey # "none" THEN 1 ELSE 0
    /\ calls[c].pc \in {"writeStream", "resolved"}
       => calls[c].kasPublicKey # "none"
    /\ \A i \in 1..Len(calls[c].keyAccess) :
         /\ calls[c].keyAccess[i].url = client.kasEndpoint
         /\ calls[c].keyAccess[i].type \in {"wrapped", "remote"}
         /\ calls[c].keyAccess[i].type = "wrapped" <=> calls[c].offline

\* An offline and an online encrypt on a Client whose kasEndpoint comes from
\* keyRewrapEndpoint both returned a stream.
C17_Witness ==
  /\ config.kasEndpoint = Undefined
  /\ \E c, d \in Encrypts :
       /\ calls[c].offline /\ ~calls[d].offline
       /\ calls[c].pc = "resolved" /\ calls[d].pc = "resolved"
       /\ calls[c].keyAccess[1].url = OtherUrl

SessionSettled ==
  client.state = "constructed" /\ sessionKeys.state \in {"resolved", "rejected"}

Keyed == {c \in CallIds : calls[c].keypair # "none"}

\* C22: once the session keys of a Client are resolved they stay as they
\* are; every encrypt and decrypt call that gets them uses that key pair,
\* and no call generates another: generateKeyPair runs at most once per
\* Client, and never after the session keys are resolved.
C22_SessionKeysPersist ==
  /\ [](/\ effects.keygen <= 1
        /\ \A c \in Keyed : /\ sessionKeys.state = "resolved"
                             /\ calls[c].keypair = sessionKeys.keypair)
  /\ [][sessionKeys.state = "resolved"
          => /\ sessionKeys' = sessionKeys
             /\ effects'.keygen = effects.keygen]_vars

\* An encrypt and a decrypt call both hold the generated session key pair,
\* the first of them already finished.
C22_Witness ==
  /\ sessionKeys.keypair = "generated"
  /\ effects.keygen = 1
  /\ \E c, d \in Keyed :
       /\ c < d
       /\ calls[c].op # calls[d].op
       /\ calls[c].pc = "resolved"

\* The encrypt calls that have got the KAS public key.
KasKeyed == {c \in Encrypts : calls[c].kasPublicKey # "none"}

\* C23: the KAS public key is fetched at most once per Client and never
\* when config.kasPublicKey is given; every encrypt call that gets it uses
\* the one cached value, in its key-access entry too, and once settled the
\* cached promise never changes and nothing is fetched again.
C23_KasPublicKeyCached ==
  /\ [](/\ effects.kasFetch <= 1
        /\ config.kasPublicKey => effects.kasFetch = 0
        /\ \A c \in KasKeyed :
             /\ kasPublicKey.state = "resolved"
             /\ calls[c].kasPublicKey = kasPublicKey.value
             /\ \A i \in DOMAIN calls[c].keyAccess :
                  calls[c].keyAccess[i].publicKey = kasPublicKey.value)
  /\ [][kasPublicKey.state \in {"resolved", "rejected"}
          => /\ kasPublicKey' = kasPublicKey
             /\ effects'.kasFetch = effects.kasFetch]_vars

\* Two encrypt calls hold the key that was fetched once.
C23_Witness ==
  /\ effects.kasFetch = 1
  /\ kasPublicKey.value = "fetched"
  /\ \E c, d \in KasKeyed : c < d /\ calls[c].pc = "resolved"

\* C26: keyRewrapEndpoint is ignored: a construction has the outcome, and
\* the Client the kasEndpoint, of the construction from the same config
\* without keyRewrapEndpoint. It fails when kasEndpoint is absent or empty:
\* the constructor then takes the KAS endpoint from keyRewrapEndpoint.
C26_RewrapEndpointIgnored ==
  client.state # "none"
  => LET bare == [config EXCEPT !.keyRewrapEndpoint = Undefined] IN
     /\ (client.state = "constructed") = (ConstructorError(bare) = "")
     /\ client.state = "threw" => client.error = ConstructorError(bare)
     /\ client.state = "constructed"
        => client.kasEndpoint = KasEndpointOf(bare)

\* C27: whenever CompleteMultipartUploadCommand is sent, its Parts list
\* holds every part number the feeder produced, 1..bodyParts, exactly once,
\* for either value of leavePartsOnError. It fails without
\* leavePartsOnError: the error of a failed UploadPartCommand is swallowed
\* and the uploader goes on to the next part.
C27_CompleteWithoutGap ==
  completeParts # Undefined
  => Val(completeParts) = [i \in 1..bodyParts |-> i]

\* C28: CreateMultipartUploadCommand is sent at most once per Upload, also
\* when several uploaders find uploadId unset together, and an
\* UploadPartCommand is sent only once the answer to it has arrived and
\* this.uploadId is set from it.
C28_CreateOnce ==
  /\ [](sent.create <= 1)
  /\ [][sent'.part > sent.part => createState = "ok" /\ uploadId']_vars

\* Two uploaders wait for the answer to the one command that was sent.
C28_Witness ==
  /\ Cardinality({w \in Uploaders : wpc[w] = "creating"}) >= 2
  /\ createState = "pending"
  /\ sent.create = 1

\* C29: a body of a single part is uploaded with one PutObjectCommand and
\* no CreateMultipartUploadCommand, UploadPartCommand or
\* CompleteMultipartUploadCommand: none of the three is ever sent for it,
\* never more than one put, and exactly one once done() has resolved. A
\* body of two or more parts sends no PutObjectCommand.
C29_SinglePartUsesPut ==
  /\ bodyParts = 1
     => /\ sent.create = 0 /\ sent.part = 0 /\ sent.complete = 0
        /\ sent.put <= 1
        /\ donePc = "resolved" => sent.put = 1
  /\ bodyParts >= 2 => sent.put = 0

\* A single-part body has been uploaded by two uploaders, one of which was
\* handed the part.
C29_Witness ==
  /\ bodyParts = 1 /\ queueSize = 2
  /\ donePc = "resolved"
  /\ sent.put = 1
  /\ isMultiPart = FALSE

\* C30: done() always settles. When every command sent is answered and
\* the feeder is finite, a pending done() is eventually resolved or
\* rejected, for every interleaving of the uploaders and every moment of
\* abort(), before done() included.
C30_DoneSettles ==
  (donePc = "pending")
    ~> (donePc \in {"resolved", "rejectedAbort", "rejectedError"})

\* abort() came before done(), so that onabort was installed too late to
\* run, and done() has been rejected all the same.
C30_Witness ==
  /\ aborted /\ onabortSet
  /\ donePc = "rejectedAbort"

\* C24 as stated: the stream is built with highWaterMark 1, so the source
\* is pulled only while the internal queue is empty and at most one chunk
\* is queued ahead of the consumer in every reachable state. A source that
\* enqueues two chunks in one call of start or pull breaks the second half.
C24_OneChunkQueued ==
  /\ rs.pulledAt \subseteq {0}
  /\ Len(rs.queue) <= 1

\* C24 amended: the source is pulled only while the internal queue is
\* empty, and at most one chunk is queued ahead of the consumer in every
\* reachable state when the source enqueues at most one chunk per call of
\* start or pull.
C24_OneChunkPerCallQueued ==
  /\ rs.pulledAt \subseteq {0}
  /\ source.perCall = 1 => Len(rs.queue) <= 1

\* A one-chunk-per-call source has been pulled a second time, after the
\* pump took the first chunk, and a chunk waits in the queue again.
C24_Witness ==
  /\ source.perCall = 1
  /\ rs.pulledAt = {0}
  /\ rs.produced >= 2
  /\ Len(rs.queue) = 1
  /\ readLog # << >>

\* The pump has called writer.close().
PumpClosing == toFilePc \in {"closing", "resolved"} \/ writerClosed

\* C25: the manual pump of toFile hands the chunks to the sink in the order
\* it read them, which is the order the source enqueued them: what the sink
\* holds is what was read, less at most the chunk whose write is pending or
\* has failed. A read is under way only when every chunk read has been
\* written, and the writer is closed only after the stream reported done,
\* when the sink holds every chunk of the stream once and in order.
C25_PumpInOrder ==
  /\ readLog = [i \in 1..Len(readLog) |-> i]
  /\ Len(sink) <= Len(readLog) /\ Len(readLog) <= Len(sink) + 1
  /\ sink = SubSeq(readLog, 1, Len(sink))
  /\ (writePending = Undefined /\ toFilePc # "rejected") => sink = readLog
  /\ writePending # Undefined
     => /\ toFilePc = "writing"
        /\ readLog = Append(sink, Val(writePending))
  /\ toFilePc = "reading" => writePending = Undefined /\ sink = readLog
  /\ PumpClosing
     => /\ rs.state = "closed"
        /\ writePending = Undefined
        /\ sink = [i \in 1..rs.produced |-> i]

\* The pump has written several chunks and closed the writer.
C25_Witness ==
  /\ toFilePc = "resolved"
  /\ writerClosed
  /\ Len(sink) >= 2

\* The range texts that are byte ranges of HTTP (RFC 9110 section 14.1.1):
\* "a-b" with 0 <= a <= b and the suffix range "-k". The open range "a-"
\* is one too, but no RangeText stands for it: without "-<last>" the text
\* is the number alone.
ValidByteRange(r) ==
  \/ r.first >= 0 /\ r.hasLast /\ r.last >= r.first
  \/ r.first < 0 /\ ~r.hasLast

\* C31: for every call that fromUrl does not reject and that has a
\* byteStart, the Range header of every GET is a valid byte range:
\* 'bytes=a-(b-1)' for a >= 0 with a positive end b, 'bytes=a-' for a >= 0
\* with no end, 'bytes=-k' for a negative start with no end. It fails for a
\* start a >= 0 with no end: the header sent is 'bytes=a'.
C31_RangeHeaderValid ==
  byteStart # Undefined
  => \A i \in 1..Len(requests) :
       /\ requests[i] # Undefined
       /\ ValidByteRange(Val(requests[i]))
       /\ Val(requests[i]).first = Val(byteStart)
       /\ (byteEnd # Undefined /\ Val(byteEnd) > 0)
          => /\ Val(requests[i]).hasLast
             /\ Val(requests[i]).last = Val(byteEnd) - 1

\* The encrypt calls that ask for HTML with an rcaSource, or for HTML on a
\* Client without readerUrl.
Refused ==
  {c \in Encrypts :
     calls[c].asHtml /\ (calls[c].rcaSource \/ ~client.readerUrl)}

\* C32: an encrypt call with asHtml and an rcaSource, or with asHtml on a
\* Client without readerUrl, is rejected from the moment it is made, with
\* the Error of the check that refused it, whatever the state of the
\* session keys and of the KAS public key; it never holds a key pair, a
\* KAS public key, a key-access entry or a byte limit and never gets to
\* writeStream.
C32_RefusedBeforeAwait ==
  \A c \in Refused :
    /\ calls[c].pc = "rejected"
    /\ calls[c].error =
         IF calls[c].rcaSource
         THEN "rca links should be used only with zip format"
         ELSE "html container missing required parameter: [readerUrl]"
    /\ calls[c].keypair = "none" /\ calls[c].kasPublicKey = "none"
    /\ calls[c].keyAccess = << >>
    /\ calls[c].byteLimit = Undefined /\ calls[c].size = Undefined

\* Both kinds of call have been rejected while the session keys and the
\* KAS public key of the Client were still pending.
C32_Witness ==
  /\ sessionKeys.state \in {"generating", "updating"}
  /\ kasPublicKey.state = "pending"
  /\ \E c, d \in Refused :
       /\ calls[c].rcaSource /\ ~calls[d].rcaSource
       /\ calls[c].pc = "rejected" /\ calls[d].pc = "rejected"

\* C33: every constructed Upload has a queueSize of at least 1 and a
\* partSize of at least MIN_PART_SIZE: the option given when it is not 0,
\* the default (4, MIN_PART_SIZE) when it is absent or 0. With a negative
\* queueSize, or a partSize that is neither 0 nor MIN_PART_SIZE or more,
\* the constructor throws.
C33_EffectiveSizes ==
  LET q == options.queueSize
      p == options.partSize
      badQueue == q # Undefined /\ Val(q) < 0
      badPart == p # Undefined /\ Val(p) # 0 /\ Val(p) < MIN_PART_SIZE
  IN
  /\ upload.state = "constructed"
     => /\ upload.queueSize >= 1
        /\ upload.partSize >= MIN_PART_SIZE
        /\ upload.queueSize =
             IF q = Undefined \/ Val(q) = 0 THEN 4 ELSE Val(q)
        /\ upload.partSize =
             IF p = Undefined \/ Val(p) = 0 THEN MIN_PART_SIZE ELSE Val(p)
  /\ (upload.state # "none" /\ (badQueue \/ badPart))
     => upload.state = "threw"

\* An Upload was constructed from a queueSize and a partSize of 0.
C33_Witness ==
  /\ options.queueSize = Some(0) /\ options.partSize = Some(0)
  /\ upload.state = "constructed"
  /\ upload.queueSize = 4 /\ upload.partSize = MIN_PART_SIZE

----------------------------------------------------------------------------
(* Specifications.                                                         *)

InitChunk ==
  /\ ChunkInit /\ StreamParked /\ UploadParked /\ ClientParked
  /\ DecoratedParked /\ OptionsParked
SpecChunk == InitChunk /\ [][ChunkNext]_vars

InitStream ==
  /\ StreamInit /\ ChunkParked /\ UploadParked /\ ClientParked
  /\ DecoratedParked /\ OptionsParked
SpecStream == InitStream /\ [][StreamNext]_vars

InitUpload ==
  /\ UploadInit /\ ChunkParked /\ StreamParked /\ ClientParked
  /\ DecoratedParked /\ OptionsParked
SpecUpload == InitUpload /\ [][UploadNext]_vars

\* The steps that need no caller: the event loop runs every continuation
\* that is ready, and S3 answers every command it was sent.
UploadRun ==
  \/ \E w \in Uploaders : Fetch(w)
  \/ CreateAnswer
  \/ \E w \in Uploaders : Created(w)
  \/ \E w \in Uploaders : PartAnswer(w)
  \/ \E w \in Uploaders : PutAnswer(w)
  \/ Join
  \/ CompleteAnswer
  \/ TaggingAnswer

SpecUploadLive == InitUpload /\ [][UploadNext]_vars /\ WF_vars(UploadRun)

InitClient ==
  /\ ClientInit /\ ChunkParked /\ StreamParked /\ UploadParked
  /\ DecoratedParked /\ OptionsParked
SpecClient == InitClient /\ [][ClientNext]_vars

InitClientUse ==
  /\ ClientUseInit
  /\ ChunkParked /\ StreamParked /\ UploadParked /\ DecoratedParked
  /\ OptionsParked
SpecClientUse == InitClientUse /\ [][ClientUseNext]_vars

InitDecorated ==
  /\ DecoratedInit /\ ChunkParked /\ StreamParked /\ UploadParked
  /\ ClientParked /\ OptionsParked
SpecDecorated == InitDecorated /\ [][DecoratedNext]_vars

InitOptions ==
  /\ OptionsInit /\ ChunkParked /\ StreamParked /\ UploadParked
  /\ ClientParked /\ DecoratedParked
SpecOptions == InitOptions /\ [][OptionsNext]_vars

=============================================================================
